---- MODULE Spec2Model ----
(***************************************************************************)
(* The two auto-traders of the repository as one state machine.            *)
(*   src/myautotrader.py   the fair-value / inventory-sigmoid trader       *)
(*   src/newautotrader.py  the trend trader                                *)
(* Both are single-threaded callback objects: every action below is one    *)
(* whole callback (on_order_book_update_message, on_order_filled_message,  *)
(* on_order_status_message, on_error_message) run to completion.  The      *)
(* variable trader says which of the two classes the process has built.    *)
(***************************************************************************)
EXTENDS Integers, Sequences, FiniteSets, TLC

VARIABLES
  trader,            \* "sigmoid" (myautotrader.AutoTrader) or "trend" (newautotrader.AutoTrader)
  order_ids,         \* the value the next next(self.order_ids) returns
  bids, asks,        \* sigmoid: dict id -> [price, volume]; trend: set of ids
  position,
  bid_id, ask_id, bid_price, ask_price,
  ftrmid, wmp,       \* sigmoid: floats, kept as exact fractions <<num, den>>
  ask_prices, ask_volumes, bid_prices, bid_volumes,   \* sigmoid: the stored ladder (-1 until the first tick)
  bestBid, bestAsk,
  awaitingCancel, count, tick,
  bidprices, askprices, last_order_prices, activeorder, last_sold,   \* trend
  ev,                \* the message the last callback was called with
  out,               \* the requests that callback sent, in order
  venue,             \* exchange side: order id -> lots of the inserted order not yet traded or closed
  windowSent,        \* insert and cancel requests sent since the rate counter was last reset
  windowCancels      \* the ids the dead-quote sweep has cancelled since the rate counter was last reset, in order

prog == <<order_ids, bids, asks, position, bid_id, ask_id, bid_price, ask_price,
          ftrmid, wmp, ask_prices, ask_volumes, bid_prices, bid_volumes,
          bestBid, bestAsk, awaitingCancel, count, tick,
          bidprices, askprices, last_order_prices, activeorder, last_sold>>

vars == <<trader, prog, ev, out, venue, windowSent, windowCancels>>

sigmoidOnly == <<ftrmid, wmp, ask_prices, ask_volumes, bid_prices, bid_volumes,
                 bestBid, bestAsk, awaitingCancel, count, tick, bid_price, ask_price>>

trendOnly == <<bidprices, askprices, last_order_prices, activeorder, last_sold>>

(***************************************************************************)
(* Module constants.                                                       *)
(***************************************************************************)
MINIMUM_BID == 1

MAXIMUM_ASK == 2147483647

POSITION_LIMIT == 100

TICK_SIZE_IN_CENTS == 100

ACTIVE_ORDER_COUNT_LIMIT == 10

ACTIVE_VOLUME_LIMIT == 200

RATELIMIT == 24

MIN_VOLUME_OF_INTEREST == 20

SIG_STRETCH == 100

LOT_SIZE == 10

MIN_BID_NEAREST_TICK == ((MINIMUM_BID + TICK_SIZE_IN_CENTS) \div TICK_SIZE_IN_CENTS) * TICK_SIZE_IN_CENTS

MAX_ASK_NEAREST_TICK == (MAXIMUM_ASK \div TICK_SIZE_IN_CENTS) * TICK_SIZE_IN_CENTS

(***************************************************************************)
(* Exact arithmetic for the floats of the sigmoid trader: a value is a     *)
(* fraction <<num, den>> in lowest terms with den > 0.                     *)
(***************************************************************************)
RECURSIVE Gcd(_, _)
Gcd(a, b) == IF b = 0 THEN a ELSE Gcd(b, a % b)

Abs(a) == IF a < 0 THEN -a ELSE a

Frac(n, d) ==
  LET g == Gcd(Abs(n), d)
  IN  <<n \div g, d \div g>>

FracOfInt(k) == <<k, 1>>

\* x < y, x <= y for fractions
FracLt(x, y) == x[1] * y[2] < y[1] * x[2]

FracLe(x, y) == x[1] * y[2] <= y[1] * x[2]

FracSub(x, y) == Frac(x[1] * y[2] - y[1] * x[2], x[2] * y[2])

\* Python's round() of the fraction n/d: to the nearest integer, a tie to the even one
Round(n, d) ==
  LET f == n \div d
      r == n % d
  IN  IF 2 * r < d THEN f
      ELSE IF 2 * r > d THEN f + 1
      ELSE IF f % 2 = 0 THEN f ELSE f + 1

\* round(x + 0.6) and round(x - 0.6) for a fraction x
RoundPlus06(x) == Round(5 * x[1] + 3 * x[2], 5 * x[2])

RoundMinus06(x) == Round(5 * x[1] - 3 * x[2], 5 * x[2])

(***************************************************************************)
(* sigmoid: 1 / (1 + exp(-x / SIG_STRETCH)).  SigmoidTable[k + 1] is the   *)
(* value at x = k / 2, in units of 10^-9, for k = 0 .. 800; the values at  *)
(* negative x follow from sigmoid(-x) = 1 - sigmoid(x).                    *)
(***************************************************************************)
SigmoidTable ==
  <<
      500000000, 501249997, 502499979, 503749930, 504999833, 506249674,
      507499438, 508749107, 509998667, 511248102, 512497396, 513746535,
      514995502, 516244281, 517492858, 518741216, 519989340, 521237215,
      522484825, 523732154, 524979187, 526225909, 527472304, 528718357,
      529964052, 531209373, 532454306, 533698835, 534942945, 536186620,
      537429845, 538672605, 539914885, 541156668, 542397941, 543638687,
      544878892, 546118541, 547357618, 548596109, 549833997, 551071269,
      552307910, 553543903, 554779235, 556013891, 557247855, 558481112,
      559713649, 560945450, 562176501, 563406786, 564636292, 565865003,
      567092905, 568319983, 569546224, 570771612, 571996133, 573219773,
      574442517, 575664351, 576885261, 578105233, 579324252, 580542305,
      581759377, 582975454, 584190523, 585404569, 586617579, 587829538,
      589040434, 590250252, 591458978, 592666600, 593873103, 595078474,
      596282699, 597485766, 598687660, 599888369, 601087879, 602286177,
      603483250, 604679085, 605873668, 607066988, 608259031, 609449784,
      610639234, 611827369, 613014176, 614199643, 615383756, 616566505,
      617747875, 618927855, 620106432, 621283595, 622459331, 623633628,
      624806474, 625977858, 627147766, 628316188, 629483112, 630648526,
      631812418, 632974777, 634135591, 635294849, 636452540, 637608653,
      638763175, 639916097, 641067406, 642217093, 643365146, 644511554,
      645656306, 646799393, 647940802, 649080524, 650218549, 651354865,
      652489462, 653622331, 654753461, 655882841, 657010463, 658136315,
      659260388, 660382673, 661503159, 662621837, 663738697, 664853730,
      665966927, 667078277, 668187772, 669295403, 670401160, 671505034,
      672607017, 673707099, 674805273, 675901528, 676995856, 678088250,
      679178699, 680267197, 681353734, 682438302, 683520894, 684601500,
      685680114, 686756727, 687831331, 688903918, 689974481, 691043012,
      692109504, 693173949, 694236340, 695296669, 696354930, 697411114,
      698465216, 699517228, 700567142, 701614954, 702660654, 703704238,
      704745698, 705785028, 706822221, 707857271, 708890173, 709920918,
      710949503, 711975919, 713000163, 714022227, 715042106, 716059794,
      717075285, 718088575, 719099657, 720108527, 721115178, 722119606,
      723121805, 724121771, 725119498, 726114981, 727108216, 728099198,
      729087922, 730074384, 731058579, 732040502, 733020149, 733997517,
      734972599, 735945394, 736915896, 737884101, 738850006, 739813607,
      740774899, 741733880, 742690545, 743644892, 744596916, 745546614,
      746493983, 747439020, 748381722, 749322084, 750260106, 751195782,
      752129111, 753060090, 753988716, 754914987, 755838899, 756760451,
      757679639, 758596462, 759510917, 760423002, 761332715, 762240053,
      763145016, 764047600, 764947804, 765845626, 766741064, 767634117,
      768524783, 769413061, 770298949, 771182446, 772063549, 772942259,
      773818574, 774692493, 775564014, 776433137, 777299861, 778164185,
      779026108, 779885629, 780742748, 781597464, 782449776, 783299685,
      784147189, 784992289, 785834983, 786675272, 787513156, 788348634,
      789181707, 790012373, 790840635, 791666491, 792489941, 793310987,
      794129628, 794945865, 795759698, 796571127, 797380154, 798186778,
      798991000, 799792822, 800592243, 801389265, 802183889, 802976114,
      803765944, 804553377, 805338416, 806121062, 806901316, 807679178,
      808454651, 809227736, 809998434, 810766746, 811532675, 812296221,
      813057386, 813816172, 814572581, 815326614, 816078273, 816827559,
      817574476, 818319025, 819061207, 819801025, 820538481, 821273576,
      822006314, 822736696, 823464725, 824190403, 824913732, 825634714,
      826353353, 827069650, 827783608, 828495230, 829204518, 829911475,
      830616103, 831318406, 832018385, 832716044, 833411386, 834104414,
      834795130, 835483537, 836169639, 836853438, 837534937, 838214141,
      838891050, 839565670, 840238003, 840908052, 841575821, 842241313,
      842904531, 843565479, 844224160, 844880577, 845534735, 846186636,
      846836284, 847483683, 848128836, 848771747, 849412420, 850050858,
      850687065, 851321045, 851952802, 852582339, 853209660, 853834770,
      854457671, 855078369, 855696866, 856313167, 856927277, 857539198,
      858148935, 858756493, 859361874, 859965084, 860566127, 861165006,
      861761727, 862356292, 862948707, 863538976, 864127103, 864713092,
      865296948, 865878675, 866458277, 867035760, 867611126, 868184382,
      868755531, 869324577, 869891526, 870456381, 871019148, 871579831,
      872138434, 872694962, 873249420, 873801812, 874352143, 874900418,
      875446642, 875990818, 876532952, 877073049, 877611113, 878147149,
      878681162, 879213157, 879743138, 880271110, 880797078, 881321047,
      881843022, 882363008, 882881009, 883397031, 883911078, 884423155,
      884933268, 885441421, 885947619, 886451867, 886954170, 887454533,
      887952961, 888449460, 888944033, 889436687, 889927426, 890416255,
      890903179, 891388203, 891871333, 892352574, 892831930, 893309406,
      893785008, 894258741, 894730610, 895200621, 895668777, 896135084,
      896599549, 897062174, 897522967, 897981931, 898439072, 898894396,
      899347906, 899799610, 900249511, 900697615, 901143927, 901588452,
      902031196, 902472163, 902911359, 903348789, 903784458, 904218372,
      904650535, 905080953, 905509631, 905936574, 906361788, 906785277,
      907207047, 907627103, 908045450, 908462094, 908877039, 909290291,
      909701855, 910111737, 910519941, 910926472, 911331337, 911734539,
      912136085, 912535980, 912934228, 913330834, 913725806, 914119146,
      914510861, 914900955, 915289434, 915676304, 916061568, 916445233,
      916827304, 917207785, 917586682, 917964000, 918339745, 918713920,
      919086533, 919457587, 919827088, 920195041, 920561451, 920926323,
      921289663, 921651475, 922011765, 922370537, 922727798, 923083551,
      923437803, 923790557, 924141820, 924491596, 924839891, 925186708,
      925532055, 925875935, 926218353, 926559316, 926898827, 927236891,
      927573515, 927908702, 928242458, 928574787, 928905696, 929235188,
      929563269, 929889944, 930215217, 930539094, 930861580, 931182679,
      931502396, 931820737, 932137706, 932453309, 932767549, 933080433,
      933391964, 933702149, 934010991, 934318495, 934624667, 934929510,
      935233031, 935535234, 935836124, 936135704, 936433982, 936730960,
      937026644, 937321039, 937614149, 937905979, 938196534, 938485818,
      938773837, 939060595, 939346097, 939630347, 939913350, 940195111,
      940475634, 940754924, 941032987, 941309825, 941585444, 941859849,
      942133045, 942405035, 942675824, 942945417, 943213819, 943481034,
      943747066, 944011921, 944275602, 944538114, 944799462, 945059650,
      945318683, 945576564, 945833300, 946088893, 946343348, 946596670,
      946848864, 947099933, 947349882, 947598715, 947846437, 948093052,
      948338565, 948582979, 948826299, 949068530, 949309675, 949549739,
      949788727, 950026642, 950263488, 950499271, 950733994, 950967661,
      951200277, 951431846, 951662371, 951891858, 952120310, 952347732,
      952574127, 952799500, 953023854, 953247195, 953469525, 953690850,
      953911173, 954130498, 954348829, 954566171, 954782527, 954997901,
      955212297, 955425720, 955638172, 955849659, 956060185, 956269752,
      956478365, 956686028, 956892745, 957098520, 957303356, 957507257,
      957710228, 957912272, 958113393, 958313595, 958512881, 958711255,
      958908722, 959105284, 959300946, 959495712, 959689585, 959882568,
      960074666, 960265882, 960456220, 960645684, 960834277, 961022003,
      961208866, 961394868, 961580014, 961764308, 961947753, 962130352,
      962312109, 962493028, 962673113, 962852366, 963030791, 963208392,
      963385172, 963561135, 963736284, 963910622, 964084154, 964256882,
      964428811, 964599942, 964770281, 964939829, 965108591, 965276570,
      965443770, 965610193, 965775842, 965940722, 966104836, 966268186,
      966430777, 966592611, 966753691, 966914022, 967073605, 967232445,
      967390545, 967547907, 967704535, 967860433, 968015603, 968170048,
      968323772, 968476777, 968629068, 968780646, 968931516, 969081680,
      969231141, 969379902, 969527967, 969675338, 969822019, 969968012,
      970113320, 970257947, 970401896, 970545169, 970687769, 970829700,
      970970964, 971111565, 971251504, 971390786, 971529412, 971667387,
      971804712, 971941391, 972077426, 972212821, 972347578, 972481699,
      972615189, 972748049, 972880283, 973011893, 973142881, 973273252,
      973403006, 973532148, 973660680, 973788605, 973915925, 974042643,
      974168761, 974294284, 974419212, 974543549, 974667297, 974790459,
      974913038, 975035036, 975156456, 975277300, 975397572, 975517273,
      975636406, 975754974, 975872979, 975990423, 976107311, 976223643,
      976339422, 976454651, 976569332, 976683468, 976797062, 976910115,
      977022630, 977134610, 977246057, 977356973, 977467361, 977577223,
      977686561, 977795379, 977903678, 978011460, 978118729, 978225486,
      978331734, 978437474, 978542710, 978647444, 978751677, 978855413,
      978958653, 979061400, 979163655, 979265422, 979366703, 979467499,
      979567813, 979667647, 979767003, 979865884, 979964291, 980062227,
      980159694, 980256695, 980353230, 980449303, 980544915, 980640070,
      980734767, 980829011, 980922803, 981016144, 981109038, 981201486,
      981293490, 981385052, 981476175, 981566860, 981657109, 981746925,
      981836309, 981925263, 982013790
  >>

\* sigmoid(x2 / 2) in units of 10^-9
Sigmoid(x2) ==
  IF x2 >= 0 THEN SigmoidTable[x2 + 1] ELSE 1000000000 - SigmoidTable[(-x2) + 1]

\* round(left * sigmoid(x2 / 2)); the product is split so that it stays below 2^31
RoundHalfEven(f, r, half) ==
  IF r < half THEN f
  ELSE IF r > half THEN f + 1
  ELSE IF f % 2 = 0 THEN f ELSE f + 1

\* round((hi * 100000 + lo) / 10^9)
RoundParts(hi, rem) ==
  RoundHalfEven((hi \div 10000) + (rem \div 1000000000), rem % 1000000000, 500000000)

RoundProduct(left, hi, t) == RoundParts(hi, (hi % 10000) * 100000 + left * (t % 100000))

RoundTimes(left, t) == RoundProduct(left, left * (t \div 100000), t)

\* round(left * sigmoid(x2 / 2)); the product is split so that it stays below 2^31
RoundTimesSigmoid(left, x2) == RoundTimes(left, Sigmoid(x2))

(***************************************************************************)
(* Messages.  A ladder is one order-book snapshot: five levels a side,     *)
(* zero-padded.  Requests are what the callbacks hand to send_insert_order,*)
(* send_cancel_order and send_hedge_order.                                 *)
(***************************************************************************)
Ladder(ap, av, bp, bv) ==
  [ask_prices |-> ap, ask_volumes |-> av, bid_prices |-> bp, bid_volumes |-> bv]

NoLadder == Ladder(<<>>, <<>>, <<>>, <<>>)

BookEvent(instrument, lad) ==
  [kind |-> "book", instrument |-> instrument, ladder |-> lad, id |-> 0, volume |-> 0, remaining |-> 0]

FillEvent(id, v) ==
  [kind |-> "fill", instrument |-> 0, ladder |-> NoLadder, id |-> id, volume |-> v, remaining |-> 0]

StatusEvent(id, rem) ==
  [kind |-> "status", instrument |-> 0, ladder |-> NoLadder, id |-> id, volume |-> 0, remaining |-> rem]

ErrorEvent(id) ==
  [kind |-> "error", instrument |-> 0, ladder |-> NoLadder, id |-> id, volume |-> 0, remaining |-> 0]

\* Side.BUY = Side.BID and Side.SELL = Side.ASK
InsertOrder(id, side, price, volume) ==
  [req |-> "insert", id |-> id, side |-> side, price |-> price, volume |-> volume]

CancelOrder(id) ==
  [req |-> "cancel", id |-> id, side |-> "NONE", price |-> 0, volume |-> 0]

HedgeOrder(id, side, price, volume) ==
  [req |-> "hedge", id |-> id, side |-> side, price |-> price, volume |-> volume]

RECURSIVE SortedIds(_)
SortedIds(S) ==
  IF S = {} THEN <<>>
  ELSE LET m == CHOOSE x \in S : \A y \in S : x <= y
       IN  <<m>> \o SortedIds(S \ {m})

RECURSIVE SumVolume(_, _)
SumVolume(d, S) ==
  IF S = {} THEN 0
  ELSE LET k == CHOOSE x \in S : TRUE
       IN  d[k].volume + SumVolume(d, S \ {k})

(***************************************************************************)
(* myautotrader.AutoTrader: the sigmoid trader.                            *)
(***************************************************************************)
\* the ids in self.bids or self.asks (both traders)
Live == IF trader = "sigmoid" THEN DOMAIN bids \cup DOMAIN asks ELSE bids \cup asks

LiveBids == IF trader = "sigmoid" THEN DOMAIN bids ELSE bids

LiveAsks == IF trader = "sigmoid" THEN DOMAIN asks ELSE asks

activeVolume == SumVolume(bids, DOMAIN bids) + SumVolume(asks, DOMAIN asks)

\* bid_volumes[0] == 0 and ask_volumes[0] == 0: the tick is dropped
EmptyTop(lad) == lad.bid_volumes[1] = 0 /\ lad.ask_volumes[1] = 0

\* i * ask_prices[0] + (1 - i) * bid_prices[0] with i = bid_volumes[0] / (bid_volumes[0] + ask_volumes[0])
WeightedMid(lad) ==
  Frac(lad.bid_volumes[1] * lad.ask_prices[1] + lad.ask_volumes[1] * lad.bid_prices[1],
       lad.bid_volumes[1] + lad.ask_volumes[1])

\* np.where(volumes > MIN_VOLUME_OF_INTEREST)[0]: the indices, ascending
Interesting(volumes) == {i \in 1..Len(volumes) : volumes[i] > MIN_VOLUME_OF_INTEREST}

First(S) == CHOOSE i \in S : \A j \in S : i <= j

\* the pair (bestAsk, bestBid)
relevantPrices(lad) ==
  LET i_list == Interesting(lad.ask_volumes)
      j_list == Interesting(lad.bid_volumes)
  IN  IF i_list = {} \/ j_list = {} THEN <<-1, -1>>
      ELSE IF First(i_list) > Len(lad.ask_prices) \/ First(j_list) > Len(lad.bid_prices) THEN <<-1, -1>>
      ELSE <<lad.ask_prices[First(i_list)], lad.bid_prices[First(j_list)]>>

\* the test of one live bid (side "bid") or ask in deleteDeadTrades
Dead(side, price, bBid, bAsk) ==
  IF side = "bid"
  THEN \/ bBid - price > 0
       \/ FracLt(FracOfInt(2), FracSub(FracOfInt(price), ftrmid))
       \/ bAsk - bBid > 3
  ELSE \/ price - bAsk > 0
       \/ FracLt(FracOfInt(2), FracSub(ftrmid, FracOfInt(price)))
       \/ bAsk - bBid > 3

\* one for-loop of deleteDeadTrades over the ids todo, from counter cnt
RECURSIVE Sweep(_, _, _, _, _, _, _)
Sweep(side, d, todo, bBid, bAsk, cnt, sent) ==
  IF todo = <<>> THEN [count |-> cnt, cancels |-> sent, returned |-> FALSE]
  ELSE IF Dead(side, d[Head(todo)].price, bBid, bAsk)
       THEN IF cnt < RATELIMIT
            THEN Sweep(side, d, Tail(todo), bBid, bAsk, cnt + 1, Append(sent, Head(todo)))
            ELSE [count |-> cnt, cancels |-> sent, returned |-> TRUE]
       ELSE Sweep(side, d, Tail(todo), bBid, bAsk, cnt, sent)

\* a dict is walked in insertion order, which is the order of the ids
SweepAsks(b, bBid, bAsk) ==
  IF b.returned THEN b
  ELSE Sweep("ask", asks, SortedIds(DOMAIN asks), bBid, bAsk, b.count, b.cancels)

\* a dict is walked in insertion order, which is the order of the ids
deleteDeadTrades(bBid, bAsk, cnt) ==
  SweepAsks(Sweep("bid", bids, SortedIds(DOMAIN bids), bBid, bAsk, cnt, <<>>), bBid, bAsk)

\* twice the argument of sigmoid: position - middiff * POSITION_LIMIT, middiff = (ftrmid - wmp) / 20
\* position - q, where q = num / den must be whole
WholeArg2(num, den) == 2 * position - (CHOOSE k \in {num \div den} : k * den = num)

\* twice the argument of sigmoid: position - middiff * POSITION_LIMIT, middiff = (ftrmid - wmp) / 20
SigmoidArg2(mid) == WholeArg2(2 * POSITION_LIMIT * FracSub(ftrmid, mid)[1], 20 * FracSub(ftrmid, mid)[2])

\* the pair (askVol, bidVol)
\* if (self.position - askVol <= -POSITION_LIMIT): bidVol += askVol; askVol = 0
CapShort(askVol, bidVol) ==
  IF position - askVol <= -POSITION_LIMIT THEN <<0, bidVol + askVol>> ELSE <<askVol, bidVol>>

\* if (self.position + bidVol >= POSITION_LIMIT): askVol += bidVol; bidVol = 0
CapLong(askVol, bidVol) ==
  IF position + bidVol >= POSITION_LIMIT THEN CapShort(askVol + bidVol, 0) ELSE CapShort(askVol, bidVol)

\* askVol = round(left * asks); bidVol = left - askVol
SplitVolume(left, askVol) == CapLong(askVol, left - askVol)

SizeVolumes(left, mid) ==
  IF left < 20 THEN <<0, 0>> ELSE SplitVolume(left, RoundTimesSigmoid(left, SigmoidArg2(mid)))

\* the pair (askVol, bidVol)
manageVolumes(mid) ==
  IF Cardinality(DOMAIN bids) + Cardinality(DOMAIN asks) >= ACTIVE_ORDER_COUNT_LIMIT - 1 THEN <<0, 0>>
  ELSE IF activeVolume >= ACTIVE_VOLUME_LIMIT THEN <<0, 0>>
  ELSE SizeVolumes(ACTIVE_VOLUME_LIMIT - activeVolume, mid)

\* the pair (askP, bidP), which managePrices also stores in ask_price and bid_price
managePrices(mid, bBid, bAsk) ==
  IF FracLe(FracOfInt(bBid), ftrmid) /\ FracLe(ftrmid, FracOfInt(bAsk))
  THEN <<RoundPlus06(mid), RoundMinus06(mid)>>
  ELSE IF FracLt(ftrmid, FracOfInt(bBid))
       THEN <<RoundPlus06(mid), bBid>>
       ELSE <<bAsk, RoundMinus06(mid)>>

\* HasBudget with the test of deleteDeadTrades, which sends one request and not two
HasBudgetForOne(cnt) == cnt < RATELIMIT

\* self.count < RATELIMIT - 1: makeTrade may send
HasBudget(cnt) == cnt < RATELIMIT - 1

\* makeTrade from counter cnt: the fields it leaves and the requests it sends
\* bidId != 0 and bidP not in (self.bid_price, 0), and the same test for the ask
CancelFirst(id, price, stored) == id # 0 /\ price \notin {stored, 0}

\* Traded with the inserts sized by manageVolumes (bidV, askV) instead of LOT_SIZE
TradedSized(askV, bidV, askP, bidP, bidId, askId, cnt) ==
  IF HasBudget(cnt)
  THEN [count |-> cnt + 2, order_ids |-> order_ids + 2,
        ask_price |-> askP, bid_price |-> bidP,
        bid_id |-> bid_id, ask_id |-> ask_id,
        bids |-> bids @@ (bidId :> [price |-> bidP, volume |-> bidV]),
        asks |-> asks @@ (askId :> [price |-> askP, volume |-> askV]),
        sent |-> <<InsertOrder(bidId, "BUY", bidP * TICK_SIZE_IN_CENTS, bidV),
                   InsertOrder(askId, "SELL", askP * TICK_SIZE_IN_CENTS, askV)>>]
  ELSE [count |-> cnt, order_ids |-> order_ids,
        ask_price |-> askP, bid_price |-> bidP,
        bid_id |-> bid_id, ask_id |-> ask_id,
        bids |-> bids, asks |-> asks, sent |-> <<>>]

\* makeTrade after manageVolumes and managePrices, which has stored askP and bidP
\* in self.ask_price and self.bid_price
Traded(askV, bidV, askP, bidP, bidId, askId, cnt) ==
  IF HasBudget(cnt)
  THEN [count |-> cnt + 2, order_ids |-> order_ids + 2,
        ask_price |-> askP, bid_price |-> bidP,
        bid_id |-> IF CancelFirst(bidId, bidP, bidP) THEN 0 ELSE bid_id,
        ask_id |-> IF CancelFirst(askId, askP, askP) THEN 0 ELSE ask_id,
        bids |-> bids @@ (bidId :> [price |-> bidP, volume |-> bidV]),
        asks |-> asks @@ (askId :> [price |-> askP, volume |-> askV]),
        sent |-> (IF CancelFirst(bidId, bidP, bidP) THEN <<CancelOrder(bid_id)>> ELSE <<>>)
                 \o (IF CancelFirst(askId, askP, askP) THEN <<CancelOrder(ask_id)>> ELSE <<>>)
                 \o <<InsertOrder(bidId, "BUY", bidP * TICK_SIZE_IN_CENTS, LOT_SIZE),
                      InsertOrder(askId, "SELL", askP * TICK_SIZE_IN_CENTS, LOT_SIZE)>>]
  ELSE [count |-> cnt, order_ids |-> order_ids,
        ask_price |-> askP, bid_price |-> bidP,
        bid_id |-> bid_id, ask_id |-> ask_id,
        bids |-> bids, asks |-> asks, sent |-> <<>>]

TradedAt(vols, pr, cnt) == Traded(vols[1], vols[2], pr[1], pr[2], order_ids, order_ids + 1, cnt)

\* makeTrade from counter cnt: the fields it leaves and the requests it sends
makeTrade(mid, bBid, bAsk, cnt) == TradedAt(manageVolumes(mid), managePrices(mid, bBid, bAsk), cnt)

\* self.activeVolume() < 150: the tick goes on to makeTrade
MayQuote == activeVolume < 150

\* a makeTrade that was not called
NoTrade(cnt) ==
  [count |-> cnt, order_ids |-> order_ids, ask_price |-> ask_price, bid_price |-> bid_price,
   bid_id |-> bid_id, ask_id |-> ask_id, bids |-> bids, asks |-> asks, sent |-> <<>>]

RECURSIVE CancelRequests(_)
CancelRequests(ids) ==
  IF ids = <<>> THEN <<>> ELSE <<CancelOrder(Head(ids))>> \o CancelRequests(Tail(ids))

Range(s) == {s[i] : i \in 1..Len(s)}

\* the orders the requests reqs insert, as the exchange books them
Booked(reqs) ==
  LET ins == {i \in 1..Len(reqs) : reqs[i].req = "insert"}
  IN  [id \in {reqs[i].id : i \in ins} |->
         LET i == CHOOSE j \in ins : reqs[j].id = id IN reqs[i].volume]

\* Ignored with self.tick += 1 moved above the early return
IgnoredButCounted ==
  /\ out' = <<>>
  /\ tick' = tick + 1
  /\ UNCHANGED <<order_ids, bids, asks, position, bid_id, ask_id, bid_price, ask_price,
                 ftrmid, wmp, ask_prices, ask_volumes, bid_prices, bid_volumes,
                 bestBid, bestAsk, awaitingCancel, count, trendOnly,
                 venue, windowSent, windowCancels>>

\* the early return of a dropped tick
Ignored ==
  /\ out' = <<>>
  /\ UNCHANGED <<prog, venue, windowSent, windowCancels>>

\* on_order_book_update_message of the sigmoid trader
\* the tick of the quoted instrument, once the sweep (swept) and makeTrade (made) have run
Quoted(lad, reset, bBid, bAsk, mid, swept, made, reqs) ==
  /\ tick' = tick + 1
  /\ count' = made.count
  /\ wmp' = mid
  /\ ask_prices' = lad.ask_prices
  /\ ask_volumes' = lad.ask_volumes
  /\ bid_prices' = lad.bid_prices
  /\ bid_volumes' = lad.bid_volumes
  /\ bestBid' = bBid
  /\ bestAsk' = bAsk
  /\ awaitingCancel' = awaitingCancel \cup Range(swept.cancels)
  /\ order_ids' = made.order_ids
  /\ ask_price' = made.ask_price
  /\ bid_price' = made.bid_price
  /\ bid_id' = made.bid_id
  /\ ask_id' = made.ask_id
  /\ bids' = made.bids
  /\ asks' = made.asks
  /\ out' = reqs
  /\ venue' = venue @@ Booked(reqs)
  /\ windowSent' = (IF reset THEN 0 ELSE windowSent) + Len(reqs)
  /\ windowCancels' = (IF reset THEN <<>> ELSE windowCancels) \o swept.cancels
  /\ UNCHANGED <<position, ftrmid, trendOnly>>

QuoteAfter(lad, reset, bBid, bAsk, mid, swept, made) ==
  Quoted(lad, reset, bBid, bAsk, mid, swept, made, CancelRequests(swept.cancels) \o made.sent)

\* self.deleteDeadTrades(bestBid, bestAsk); if (self.activeVolume() < 150): self.makeTrade(...)
SweepThenQuote(lad, reset, bBid, bAsk, mid, swept) ==
  QuoteAfter(lad, reset, bBid, bAsk, mid, swept,
             IF MayQuote THEN makeTrade(mid, bBid, bAsk, swept.count) ELSE NoTrade(swept.count))

\* from "self.tick += 1" on: reset says whether the counter is reset, rp is (bestAsk, bestBid)
QuotingTick(lad, reset, rp, mid) ==
  SweepThenQuote(lad, reset, rp[2], rp[1], mid, deleteDeadTrades(rp[2], rp[1], IF reset THEN 0 ELSE count))

\* on_order_book_update_message of the sigmoid trader
SigmoidBook(instrument, lad) ==
  /\ trader = "sigmoid"
  /\ UNCHANGED trader
  /\ ev' = BookEvent(instrument, lad)
  /\ IF EmptyTop(lad)
     THEN Ignored
     ELSE IF instrument = 0
     THEN /\ ftrmid' = WeightedMid(lad)
          /\ out' = <<>>
          /\ UNCHANGED <<order_ids, bids, asks, position, bid_id, ask_id, bid_price, ask_price,
                         wmp, ask_prices, ask_volumes, bid_prices, bid_volumes,
                         bestBid, bestAsk, awaitingCancel, count, tick, trendOnly,
                         venue, windowSent, windowCancels>>
     ELSE QuotingTick(lad, (tick + 1) % 4 = 0, relevantPrices(lad), WeightedMid(lad))

\* the exchange's side of a fill of v lots of order id
VenueFill(id, v) == IF id \in DOMAIN venue THEN [venue EXCEPT ![id] = @ - v] ELSE venue

\* the exchange's side of an order that is closed: cancelled, traded out or refused
VenueClose(id) == IF id \in DOMAIN venue THEN [venue EXCEPT ![id] = 0] ELSE venue

\* FillSide with the elif turned into an else
FillSideUnchecked(id) ==
  IF id \in LiveBids THEN "bid" ELSE "ask"

\* the branch on_order_filled_message takes for order id (both traders)
FillSide(id) ==
  IF id \in LiveBids THEN "bid"
  ELSE IF id \in LiveAsks THEN "ask"
  ELSE "none"

\* Hedge on the side of the fill instead of the opposite side
HedgeSameSide(side, v) ==
  IF side = "bid"
  THEN HedgeOrder(order_ids, "BUY", MAX_ASK_NEAREST_TICK, v)
  ELSE HedgeOrder(order_ids, "SELL", MIN_BID_NEAREST_TICK, v)

\* Hedge with the volume cut to the room the new position leaves below POSITION_LIMIT
HedgeClamped(side, v) ==
  LET room == IF side = "bid" THEN POSITION_LIMIT - (position + v) ELSE POSITION_LIMIT + (position - v)
      size == IF v < room THEN v ELSE room
  IN  IF side = "bid"
      THEN HedgeOrder(order_ids, "SELL", MIN_BID_NEAREST_TICK, size)
      ELSE HedgeOrder(order_ids, "BUY", MAX_ASK_NEAREST_TICK, size)

\* Hedge under the id given out last instead of a fresh one
HedgeLastId(side, v) ==
  IF side = "bid"
  THEN HedgeOrder(order_ids - 1, "SELL", MIN_BID_NEAREST_TICK, v)
  ELSE HedgeOrder(order_ids - 1, "BUY", MAX_ASK_NEAREST_TICK, v)

\* Hedge in whole multiples of LOT_SIZE, the rest of the fill left unhedged
HedgeWholeLots(side, v) ==
  IF side = "bid"
  THEN HedgeOrder(order_ids, "SELL", MIN_BID_NEAREST_TICK, (v \div LOT_SIZE) * LOT_SIZE)
  ELSE HedgeOrder(order_ids, "BUY", MAX_ASK_NEAREST_TICK, (v \div LOT_SIZE) * LOT_SIZE)

\* the send_hedge_order call of on_order_filled_message for a fill of v lots (both traders)
Hedge(side, v) ==
  IF side = "bid"
  THEN HedgeOrder(order_ids, "SELL", MIN_BID_NEAREST_TICK, v)
  ELSE HedgeOrder(order_ids, "BUY", MAX_ASK_NEAREST_TICK, v)

\* on_order_filled_message of the sigmoid trader
SigmoidFill(id, v) ==
  /\ trader = "sigmoid"
  /\ UNCHANGED trader
  /\ ev' = FillEvent(id, v)
  /\ venue' = VenueFill(id, v)
  /\ IF FillSide(id) = "bid"
     THEN /\ position' = position + v
          /\ bids' = [bids EXCEPT ![id].volume = @ - v]
          /\ out' = <<Hedge("bid", v)>>
          /\ order_ids' = order_ids + 1
          /\ UNCHANGED asks
     ELSE IF FillSide(id) = "ask"
     THEN /\ position' = position - v
          /\ asks' = [asks EXCEPT ![id].volume = @ - v]
          /\ out' = <<Hedge("ask", v)>>
          /\ order_ids' = order_ids + 1
          /\ UNCHANGED bids
     ELSE /\ out' = <<>>
          /\ UNCHANGED <<position, bids, asks, order_ids>>
  /\ UNCHANGED <<bid_id, ask_id, sigmoidOnly, trendOnly, windowSent, windowCancels>>

\* a dict without the key id (dict.pop(id, None))
Pop(d, id) == [k \in DOMAIN d \ {id} |-> d[k]]

\* SigmoidStatusBody that frees a slot on every closing update: the oldest bid's when
\* the id it names is not live
SigmoidStatusBodyFreeing(id, rem) ==
  IF rem = 0
  THEN /\ bid_id' = IF id \in DOMAIN bids THEN 0 ELSE bid_id
       /\ ask_id' = IF id \notin DOMAIN bids /\ id \in DOMAIN asks THEN 0 ELSE ask_id
       /\ bids' = IF id \in DOMAIN bids \cup DOMAIN asks \/ DOMAIN bids = {}
                  THEN Pop(bids, id)
                  ELSE Pop(bids, First(DOMAIN bids))
       /\ asks' = Pop(asks, id)
  ELSE UNCHANGED <<bid_id, ask_id, bids, asks>>

\* the body of on_order_status_message of the sigmoid trader
SigmoidStatusBody(id, rem) ==
  IF rem = 0
  THEN /\ bid_id' = IF id \in DOMAIN bids THEN 0 ELSE bid_id
       /\ ask_id' = IF id \notin DOMAIN bids /\ id \in DOMAIN asks THEN 0 ELSE ask_id
       /\ bids' = Pop(bids, id)
       /\ asks' = Pop(asks, id)
  ELSE UNCHANGED <<bid_id, ask_id, bids, asks>>

\* on_order_status_message of the sigmoid trader
SigmoidStatus(id, rem) ==
  /\ trader = "sigmoid"
  /\ UNCHANGED trader
  /\ ev' = StatusEvent(id, rem)
  /\ out' = <<>>
  /\ venue' = IF rem = 0 THEN VenueClose(id) ELSE venue
  /\ SigmoidStatusBody(id, rem)
  /\ UNCHANGED <<order_ids, position, sigmoidOnly, trendOnly, windowSent, windowCancels>>

\* SigmoidError that logs the error and does nothing else
SigmoidErrorLogged(id) ==
  /\ trader = "sigmoid"
  /\ ev' = ErrorEvent(id)
  /\ out' = <<>>
  /\ venue' = VenueClose(id)
  /\ UNCHANGED <<trader, prog, windowSent, windowCancels>>

\* on_error_message of the sigmoid trader
SigmoidError(id) ==
  /\ trader = "sigmoid"
  /\ UNCHANGED trader
  /\ ev' = ErrorEvent(id)
  /\ out' = <<>>
  /\ venue' = VenueClose(id)
  /\ IF id # 0 /\ (id \in DOMAIN bids \/ id \in DOMAIN asks)
     THEN SigmoidStatusBody(id, 0)
     ELSE UNCHANGED <<bid_id, ask_id, bids, asks>>
  /\ UNCHANGED <<order_ids, position, sigmoidOnly, trendOnly, windowSent, windowCancels>>

(***************************************************************************)
(* newautotrader.AutoTrader: the trend trader.                             *)
(***************************************************************************)
\* s without its element at the 0-based index i (list.pop(i))
PopAt(s, i) == SubSeq(s, 1, i) \o SubSeq(s, i + 2, Len(s))

\* pop(0); pop(1); pop(2); pop(3); pop(4), each on the list the one before left
PopFive(s) == PopAt(PopAt(PopAt(PopAt(PopAt(s, 0), 1), 2), 3), 4)

Repeat(v, n) == [i \in 1..n |-> v]

Occurrences(s, v) == Cardinality({i \in 1..Len(s) : s[i] = v})

RECURSIVE SortedFrom(_, _)
SortedFrom(s, values) ==
  IF values = {} THEN <<>>
  ELSE LET m == CHOOSE x \in values : \A y \in values : x <= y
       IN  Repeat(m, Occurrences(s, m)) \o SortedFrom(s, values \ {m})

\* sorted(s)
Sorted(s) == SortedFrom(s, Range(s))

Reverse(s) == [i \in 1..Len(s) |-> s[Len(s) + 1 - i]]

\* sorted(s, reverse=True)
SortedReverse(s) == Reverse(Sorted(s))

\* [x for x in s if x != v]
RECURSIVE Without(_, _)
Without(s, v) ==
  IF s = <<>> THEN <<>>
  ELSE IF Head(s) = v THEN Without(Tail(s), v) ELSE <<Head(s)>> \o Without(Tail(s), v)

RECURSIVE Sum(_)
Sum(s) == IF s = <<>> THEN 0 ELSE Head(s) + Sum(Tail(s))

\* s[:n] and s[-n:]
FirstN(s, n) == SubSeq(s, 1, IF n < Len(s) THEN n ELSE Len(s))

LastN(s, n) == SubSeq(s, IF n < Len(s) THEN Len(s) - n + 1 ELSE 1, Len(s))

\* the loops that append the non-zero prices of a tick, highest first
Appended(history, prices) == history \o Without(SortedReverse(prices), 0)

\* the trim of a history that holds exactly 101 prices
Trimmed(history) == IF Len(history) = 101 THEN PopFive(history) ELSE history

\* ask_prices[0] >= i * 1.05
FivePercentAbove(ask0, i) == 100 * ask0 >= 105 * i

\* the first price of last_order_prices the sell-back loop fires for, as a set
SellBack(ask0) ==
  LET hits == {k \in 1..Len(last_order_prices) :
                 FivePercentAbove(ask0, last_order_prices[k]) /\ activeorder = 0}
  IN  IF hits = {} THEN {} ELSE {last_order_prices[First(hits)]}

\* the fields the order step of on_order_book_update_message leaves, and what it sends
TrendKeep(bp, ap) ==
  [bidprices |-> bp, askprices |-> ap, order_ids |-> order_ids, bid_id |-> bid_id, ask_id |-> ask_id,
   bids |-> bids, asks |-> asks, last_order_prices |-> last_order_prices,
   activeorder |-> activeorder, last_sold |-> last_sold, sent |-> <<>>]

\* from "order_id = next(self.order_ids)" to the end of the callback
TrendOrder(lad, bp, ap, order_direction, order_price) ==
  LET order_id == order_ids
      ask0     == lad.ask_prices[1]
      keep     == [TrendKeep(bp, ap) EXCEPT !.order_ids = order_id + 1]
  IN  IF order_direction = "BUY" /\ activeorder = 0
      THEN LET k == [keep EXCEPT !.bid_id = order_id]
           IN  IF SellBack(ask0) # {}
               THEN LET pricetodelete == CHOOSE i \in SellBack(ask0) : TRUE
                        lenofsameprices == Occurrences(last_order_prices, pricetodelete)
                    IN  [k EXCEPT !.sent = <<InsertOrder(order_id, "SELL", ask0, LOT_SIZE * lenofsameprices)>>,
                                  !.activeorder = 1,
                                  !.asks = asks \cup {order_id},
                                  !.last_order_prices = Without(last_order_prices, pricetodelete),
                                  !.last_sold = ask0]
               ELSE IF position + LOT_SIZE > POSITION_LIMIT
               THEN LET order_size == (position + LOT_SIZE) - POSITION_LIMIT
                    IN  IF order_size > 0 THEN k
                        ELSE [k EXCEPT !.activeorder = 1,
                                       !.sent = <<InsertOrder(order_id, order_direction,
                                                              order_price * TICK_SIZE_IN_CENTS, order_size)>>,
                                       !.last_order_prices = Append(last_order_prices, order_price)]
               ELSE IF order_price >= last_sold /\ last_sold # 0 THEN k
               ELSE [k EXCEPT !.last_sold = IF Len(last_order_prices) = 0 THEN 0 ELSE last_sold,
                              !.sent = <<InsertOrder(order_id, order_direction,
                                                     order_price * TICK_SIZE_IN_CENTS, LOT_SIZE)>>,
                              !.last_order_prices = Append(last_order_prices, order_price),
                              !.bids = bids \cup {order_id},
                              !.activeorder = 1]
      ELSE IF order_direction = "SELL" /\ position > -POSITION_LIMIT
      THEN [keep EXCEPT !.ask_id = order_id,
                        !.sent = <<InsertOrder(order_id, order_direction, order_price, LOT_SIZE)>>,
                        !.asks = asks \cup {order_id},
                        !.activeorder = 1]
      ELSE keep

\* int(price + price_adjustment if first != 0 else 0), price_adjustment = -1 * position * TICK_SIZE_IN_CENTS / LOT_SIZE
AdjustedPrice(price, first) ==
  IF first # 0 THEN price + ((-1) * position * TICK_SIZE_IN_CENTS) \div LOT_SIZE ELSE 0

\* on_order_book_update_message for Instrument.FUTURE, as the fields it leaves
TrendFuture(lad) ==
  LET depth == 10
      bp0 == Appended(bidprices, lad.bid_prices)
      ap0 == Appended(askprices, lad.ask_prices)
  IN  IF Len(bp0) <= depth * depth \/ Len(ap0) <= depth * depth THEN TrendKeep(bp0, ap0)
      ELSE LET bp == SortedReverse(Trimmed(bp0))
               ap == Sorted(Trimmed(ap0))
               \* the sign of sum(first)/depth - sum(last)/depth
               bid_trend == Sum(FirstN(bp, depth)) - Sum(LastN(bp, depth))
               ask_trend == Sum(LastN(ap, depth)) - Sum(FirstN(ap, depth))
           IN  IF bid_trend > 0 /\ ask_trend > 0
               THEN TrendOrder(lad, bp, ap, "BUY", AdjustedPrice(lad.ask_prices[1], lad.ask_prices[1]))
               ELSE IF bid_trend > 0 /\ ask_trend < 0
               THEN TrendOrder(lad, bp, ap, "BUY",
                               AdjustedPrice(lad.bid_prices[Len(lad.bid_prices)], lad.bid_prices[1]))
               ELSE IF bid_trend < 0 /\ ask_trend > 0
               THEN TrendOrder(lad, bp, ap, "SELL", AdjustedPrice(lad.ask_prices[1], lad.ask_prices[1]))
               ELSE TrendKeep(bp, ap)

\* on_order_book_update_message of the trend trader
TrendBook(instrument, lad) ==
  /\ trader = "trend"
  /\ UNCHANGED trader
  /\ ev' = BookEvent(instrument, lad)
  /\ IF instrument = 0
     THEN LET r == TrendFuture(lad)
          IN  /\ bidprices' = r.bidprices
              /\ askprices' = r.askprices
              /\ order_ids' = r.order_ids
              /\ bid_id' = r.bid_id
              /\ ask_id' = r.ask_id
              /\ bids' = r.bids
              /\ asks' = r.asks
              /\ last_order_prices' = r.last_order_prices
              /\ activeorder' = r.activeorder
              /\ last_sold' = r.last_sold
              /\ out' = r.sent
              /\ venue' = venue @@ Booked(r.sent)
     ELSE /\ out' = <<>>
          /\ UNCHANGED <<bidprices, askprices, order_ids, bid_id, ask_id, bids, asks,
                         last_order_prices, activeorder, last_sold, venue>>
  /\ UNCHANGED <<position, sigmoidOnly, windowSent, windowCancels>>

\* on_order_filled_message of the trend trader
TrendFill(id, v) ==
  /\ trader = "trend"
  /\ UNCHANGED trader
  /\ ev' = FillEvent(id, v)
  /\ venue' = VenueFill(id, v)
  /\ IF FillSide(id) = "bid"
     THEN /\ position' = position + v
          /\ bids' = bids \ {id}
          /\ out' = <<Hedge("bid", v)>>
          /\ order_ids' = order_ids + 1
          /\ activeorder' = 0
          /\ UNCHANGED asks
     ELSE IF FillSide(id) = "ask"
     THEN /\ position' = position - v
          /\ asks' = asks \ {id}
          /\ out' = <<Hedge("ask", v)>>
          /\ order_ids' = order_ids + 1
          /\ activeorder' = 0
          /\ UNCHANGED bids
     ELSE /\ out' = <<>>
          /\ UNCHANGED <<position, bids, asks, order_ids, activeorder>>
  /\ UNCHANGED <<bid_id, ask_id, sigmoidOnly, bidprices, askprices, last_order_prices, last_sold,
                 windowSent, windowCancels>>

\* the body of on_order_status_message of the trend trader
TrendStatusBody(id, rem) ==
  IF rem = 0
  THEN /\ bid_id' = IF id = bid_id THEN 0 ELSE bid_id
       /\ ask_id' = IF id # bid_id /\ id = ask_id THEN 0 ELSE ask_id
       /\ bids' = bids \ {id}
       /\ asks' = asks \ {id}
  ELSE UNCHANGED <<bid_id, ask_id, bids, asks>>

\* on_order_status_message of the trend trader
TrendStatus(id, rem) ==
  /\ trader = "trend"
  /\ UNCHANGED trader
  /\ ev' = StatusEvent(id, rem)
  /\ out' = <<>>
  /\ venue' = IF rem = 0 THEN VenueClose(id) ELSE venue
  /\ TrendStatusBody(id, rem)
  /\ UNCHANGED <<order_ids, position, sigmoidOnly, trendOnly, windowSent, windowCancels>>

\* on_error_message of the trend trader
TrendError(id) ==
  /\ trader = "trend"
  /\ UNCHANGED trader
  /\ ev' = ErrorEvent(id)
  /\ out' = <<>>
  /\ venue' = VenueClose(id)
  /\ IF id # 0 /\ (id \in bids \/ id \in asks)
     THEN TrendStatusBody(id, 0)
     ELSE UNCHANGED <<bid_id, ask_id, bids, asks>>
  /\ UNCHANGED <<order_ids, position, sigmoidOnly, trendOnly, windowSent, windowCancels>>

(***************************************************************************)
(* The process and the exchange.  Init is the state the constructor        *)
(* leaves; the fields of the class that was not built keep these values.   *)
(***************************************************************************)
Init ==
  /\ trader \in {"sigmoid", "trend"}
  /\ order_ids = 1
  /\ bids = IF trader = "sigmoid" THEN <<>> ELSE {}
  /\ asks = IF trader = "sigmoid" THEN <<>> ELSE {}
  /\ position = 0
  /\ bid_id = 0
  /\ ask_id = 0
  /\ bid_price = 0
  /\ ask_price = 0
  /\ ftrmid = FracOfInt(-1)
  /\ wmp = FracOfInt(-1)
  /\ ask_prices = -1
  /\ ask_volumes = -1
  /\ bid_prices = -1
  /\ bid_volumes = -1
  /\ bestBid = -1
  /\ bestAsk = -1
  /\ awaitingCancel = {}
  /\ count = 0
  /\ tick = 0
  /\ bidprices = <<>>
  /\ askprices = <<>>
  /\ last_order_prices = <<>>
  /\ activeorder = 0
  /\ last_sold = 0
  /\ ev = [kind |-> "none", instrument |-> 0, ladder |-> NoLadder, id |-> 0, volume |-> 0, remaining |-> 0]
  /\ out = <<>>
  /\ venue = <<>>
  /\ windowSent = 0
  /\ windowCancels = <<>>

\* bounds of the runs
MaxOrderId == 4

MaxTick == 4

MaxHistory == 166

PartialFill == 6

\* order books, prices in ticks
Narrow == Ladder(<<12, 13, 14, 15, 16>>, <<30, 30, 30, 30, 30>>, <<10, 9, 8, 7, 6>>, <<30, 30, 30, 30, 30>>)

Wide == Ladder(<<12, 14, 15, 16, 17>>, <<10, 30, 30, 30, 30>>, <<10, 9, 8, 7, 6>>, <<10, 30, 30, 30, 30>>)

Thin == Ladder(<<12, 13, 0, 0, 0>>, <<10, 20, 0, 0, 0>>, <<10, 9, 8, 0, 0>>, <<30, 30, 30, 0, 0>>)

Empty == Ladder(<<0, 0, 0, 0, 0>>, <<0, 0, 0, 0, 0>>, <<0, 0, 0, 0, 0>>, <<0, 0, 0, 0, 0>>)

OneLevel == Ladder(<<13, 0, 0, 0, 0>>, <<30, 0, 0, 0, 0>>, <<11, 0, 0, 0, 0>>, <<30, 0, 0, 0, 0>>)

\* the Narrow book with more lots offered at the best ask: the weighted mid is 10.5
Offered == Ladder(<<12, 13, 14, 15, 16>>, <<90, 30, 30, 30, 30>>, <<10, 9, 8, 7, 6>>, <<30, 30, 30, 30, 30>>)

\* the books the sigmoid trader is sent: <<instrument, ladder>>
SigmoidBooks == ({1} \X {Narrow, Thin, Offered, Empty}) \cup ({0} \X {Narrow, Empty})

\* the books the trend trader is sent; the market is steady until the histories are full
TrendBooks ==
  IF Len(bidprices) < 100 THEN {<<0, Narrow>>}
  ELSE ({0} \X {Narrow, OneLevel}) \cup {<<1, Narrow>>}

\* order ids a message of the exchange may name: the orders it has booked, and none (0)
VenueIds == DOMAIN venue \cup {0}

\* the lots a fill of order id may report
FillVolumes(id) ==
  IF id \in DOMAIN venue THEN {v \in {PartialFill, venue[id]} : 1 <= v /\ v <= venue[id]}
  ELSE {LOT_SIZE}

\* the remaining volume a status message of order id may report
Remaining(id) == IF id \in DOMAIN venue THEN {0, venue[id]} ELSE {0}

OrderBook ==
  \/ /\ tick < MaxTick
     /\ order_ids <= MaxOrderId
     /\ \E b \in SigmoidBooks : SigmoidBook(b[1], b[2])
  \/ /\ Len(bidprices) < MaxHistory
     /\ order_ids <= MaxOrderId
     /\ \E b \in TrendBooks : TrendBook(b[1], b[2])

OrderFilled ==
  /\ order_ids <= MaxOrderId
  /\ \E id \in VenueIds : \E v \in FillVolumes(id) : SigmoidFill(id, v) \/ TrendFill(id, v)

OrderStatus ==
  \E id \in VenueIds : \E rem \in Remaining(id) : SigmoidStatus(id, rem) \/ TrendStatus(id, rem)

ErrorMessage ==
  \E id \in VenueIds : SigmoidError(id) \/ TrendError(id)

Next == OrderBook \/ OrderFilled \/ OrderStatus \/ ErrorMessage

Spec == Init /\ [][Next]_vars

(***************************************************************************)
(* A falling market, for long runs: the exchange trades the bids of the    *)
(* trader and reports the order closed; its asks never trade and, for the  *)
(* sigmoid trader, the future ticks at most once, before the first quote.  *)
(***************************************************************************)
RunTicks == 11

RunOrderIds == 31

\* the bids that rest at the exchange
RestingBids == {id \in LiveBids : id \in DOMAIN venue /\ venue[id] > 0}

\* the orders that have traded out and that the trader still holds
TradedOut == {id \in DOMAIN venue : venue[id] = 0 /\ (id \in Live \/ id = bid_id)}

FallingBook ==
  \/ /\ tick < RunTicks
     /\ order_ids <= RunOrderIds
     /\ \E lad \in {Narrow, Wide} : SigmoidBook(1, lad)
  \/ /\ tick = 0
     /\ ftrmid = FracOfInt(-1)
     /\ SigmoidBook(0, Narrow)
  \/ /\ Len(bidprices) < MaxHistory
     /\ order_ids <= RunOrderIds
     /\ TrendBook(0, Narrow)

\* a bid trades in full, and also in part once the position is within a lot of the limit
FallingVolumes(id) ==
  IF position + LOT_SIZE >= POSITION_LIMIT THEN FillVolumes(id) ELSE {venue[id]}

FallingFill ==
  \E id \in RestingBids : \E v \in FallingVolumes(id) : SigmoidFill(id, v) \/ TrendFill(id, v)

FallingStatus ==
  \E id \in TradedOut : SigmoidStatus(id, 0) \/ TrendStatus(id, 0)

NextFalling == FallingBook \/ FallingFill \/ FallingStatus

SpecFalling == Init /\ [][NextFalling]_vars

(***************************************************************************)
(* The claims.                                                             *)
(***************************************************************************)
Inserts(reqs) == {i \in 1..Len(reqs) : reqs[i].req = "insert"}

Min(a, b) == IF a < b THEN a ELSE b

\* C1: in the sigmoid trader the number of live orders, len(bids) + len(asks), is at
\* most ACTIVE_ORDER_COUNT_LIMIT after every event.
C1_LiveOrdersWithinLimit ==
  trader = "sigmoid" =>
    Cardinality(DOMAIN bids) + Cardinality(DOMAIN asks) <= ACTIVE_ORDER_COUNT_LIMIT

\* C2: in the sigmoid trader activeVolume(), the sum of the recorded remaining volumes
\* of the live bids and asks, is at most ACTIVE_VOLUME_LIMIT after every event.
C2_ActiveVolumeWithinLimit ==
  trader = "sigmoid" => activeVolume <= ACTIVE_VOLUME_LIMIT

\* C3: in both traders the position stays within -POSITION_LIMIT .. POSITION_LIMIT when
\* the exchange fills live orders for no more than the volume they were inserted with.
C3_PositionWithinLimit ==
  -POSITION_LIMIT <= position /\ position <= POSITION_LIMIT

\* C4: the position changes only in the fill callback, and only for an order id that is
\* in the live bids or asks; order books, status updates, errors and fills of unknown
\* ids leave it as it was.
C4_PositionOnlyByLiveFill ==
  [][position' # position => (ev'.kind = "fill" /\ ev'.id \in Live)]_vars

\* C4 witness: an order-book tick has just inserted orders, after fills moved the position.
C4_Witness ==
  /\ ev.kind = "book"
  /\ Inserts(out) # {}
  /\ position # 0

\* C5: in the sigmoid trader the insert and cancel requests sent between two resets of
\* the rate counter are at most RATELIMIT, so that none is sent once the budget is used up.
C5_RateBudgetKept ==
  trader = "sigmoid" => windowSent <= RATELIMIT

\* C5 witness: the budget is used up and a tick that would have quoted has sent no insert.
C5_Witness ==
  /\ trader = "sigmoid"
  /\ ev.kind = "book"
  /\ windowSent = RATELIMIT
  /\ count = RATELIMIT
  /\ MayQuote
  /\ out # <<>>
  /\ Inserts(out) = {}

\* C6: the dead-quote sweep of the sigmoid trader sends no two cancel requests for the
\* same order id between two resets of the rate counter.
C6_NoSecondCancelInWindow ==
  \A i, j \in 1..Len(windowCancels) : i # j => windowCancels[i] # windowCancels[j]

\* C7: a fill of a live order sends exactly one hedge order, on the opposite side: a sell
\* at MIN_BID_NEAREST_TICK for a filled bid, a buy at MAX_ASK_NEAREST_TICK for a filled
\* ask; a fill of an id that is not live sends nothing.
C7_OneHedgePerLiveFill ==
  [][ev'.kind = "fill" =>
       IF ev'.id \in LiveBids
       THEN /\ Len(out') = 1
            /\ out'[1].req = "hedge"
            /\ out'[1].side = "SELL"
            /\ out'[1].price = MIN_BID_NEAREST_TICK
       ELSE IF ev'.id \in LiveAsks
       THEN /\ Len(out') = 1
            /\ out'[1].req = "hedge"
            /\ out'[1].side = "BUY"
            /\ out'[1].price = MAX_ASK_NEAREST_TICK
       ELSE out' = <<>>]_vars

\* C7 witness: the trend trader has hedged the fill of one of its bids.
C7_Witness ==
  /\ trader = "trend"
  /\ ev.kind = "fill"
  /\ Len(out) = 1
  /\ out[1].side = "SELL"

\* C8 as claimed: the hedge of a fill of v lots has size min(v, POSITION_LIMIT - newPosition)
\* for a filled bid, and min(v, POSITION_LIMIT + newPosition) for a filled ask.
C8_HedgeCutToLimit ==
  (ev.kind = "fill" /\ out # <<>>) =>
    out[1].volume = IF out[1].side = "SELL"
                    THEN Min(ev.volume, POSITION_LIMIT - position)
                    ELSE Min(ev.volume, POSITION_LIMIT + position)

\* C8 as amended: the hedge of a fill of v lots has size v, whatever the position.
C8_HedgeIsFillVolume ==
  (ev.kind = "fill" /\ out # <<>>) => out[1].volume = ev.volume

\* C8 witness: a hedge sent where the new position leaves less room than the fill.
C8_Witness ==
  /\ ev.kind = "fill"
  /\ out # <<>>
  /\ out[1].side = "SELL"
  /\ POSITION_LIMIT - position < ev.volume

\* C9: an order-book tick of the sigmoid trader whose top bid and ask volumes are both
\* zero changes no field of the trader and sends nothing, for either instrument.
C9_EmptyTopTickIgnored ==
  [][(/\ trader = "sigmoid"
      /\ ev'.kind = "book"
      /\ ev'.ladder.bid_volumes[1] + ev'.ladder.ask_volumes[1] = 0)
     => (prog' = prog /\ out' = <<>>)]_vars

\* C9 witness: such a tick has arrived while the trader held orders and had used budget.
C9_Witness ==
  /\ trader = "sigmoid"
  /\ ev.kind = "book"
  /\ ev.ladder.bid_volumes[1] + ev.ladder.ask_volumes[1] = 0
  /\ Live # {}
  /\ count > 0

\* C10: a quoting tick of the sigmoid trader for which relevantPrices returns (-1, -1)
\* sends no insert order (and so adds nothing to the live bids and asks).
C10_NoQuoteWithoutRelevantPrices ==
  (/\ trader = "sigmoid"
   /\ ev.kind = "book"
   /\ ev.instrument # 0
   /\ ~EmptyTop(ev.ladder)
   /\ relevantPrices(ev.ladder) = <<-1, -1>>)
  => Inserts(out) = {}

\* C11: every insert order the sigmoid trader sends has a limit price of at least
\* MIN_BID_NEAREST_TICK and at most MAX_ASK_NEAREST_TICK, on every order-book tick.
C11_InsertPriceWithinVenueBounds ==
  trader = "sigmoid" =>
    \A i \in Inserts(out) :
      MIN_BID_NEAREST_TICK <= out[i].price /\ out[i].price <= MAX_ASK_NEAREST_TICK

\* C12: every insert order either trader sends has a volume of at least one lot, also
\* when manageVolumes has returned 0 for a side and when the position is at the limit.
C12_InsertVolumePositive ==
  \A i \in Inserts(out) : out[i].volume > 0

\* C12 witness: at the position limit the sigmoid trader has sent an ask for which
\* manageVolumes returned (and the trader recorded) a volume of 0.
C12_Witness ==
  /\ trader = "sigmoid"
  /\ ev.kind = "book"
  /\ position >= POSITION_LIMIT
  /\ \E i \in Inserts(out) : out[i].side = "SELL" /\ asks[out[i].id].volume = 0

\* C13: on a tick where makeTrade of the sigmoid trader has the budget to send, every
\* live bid whose price differs from the new target bid price, and every live ask whose
\* price differs from the new target ask price, is sent a cancel request, and the new
\* price is inserted under a fresh order id.
C13_CancelAndReplaceOnPriceChange ==
  [][(/\ trader = "sigmoid"
      /\ ev'.kind = "book"
      /\ Inserts(out') # {})
     => /\ \A id \in DOMAIN bids : bids[id].price # bid_price' => CancelOrder(id) \in Range(out')
        /\ \A id \in DOMAIN asks : asks[id].price # ask_price' => CancelOrder(id) \in Range(out')
        /\ \A i \in Inserts(out') : out'[i].id >= order_ids]_vars

\* C14: on a tick where makeTrade of the sigmoid trader computes target prices (the
\* active volume is below 150) and a live bid that the dead-quote sweep leaves alone
\* already has the target bid price, and such a live ask the target ask price, no
\* insert is sent and the live bids and asks are the same orders as before the tick.
C14_NoActionWhenPricesMatch ==
  [][(/\ trader = "sigmoid"
      /\ ev'.kind = "book"
      /\ ev'.instrument # 0
      /\ ~EmptyTop(ev'.ladder)
      /\ MayQuote
      /\ \E id \in DOMAIN bids : bids[id].price = bid_price' /\ CancelOrder(id) \notin Range(out')
      /\ \E id \in DOMAIN asks : asks[id].price = ask_price' /\ CancelOrder(id) \notin Range(out'))
     => /\ Inserts(out') = {}
        /\ DOMAIN bids' = DOMAIN bids
        /\ DOMAIN asks' = DOMAIN asks]_vars

\* C15: in both traders a status update with remaining volume 0 leaves the order it
\* names out of the live bids and asks (so that it no longer counts towards the live
\* orders or the active volume), and delivering the same update again right after
\* changes no field of the trader.
C15_ClosingStatusIdempotent ==
  [][(ev'.kind = "status" /\ ev'.remaining = 0)
     => /\ ev'.id \notin Live'
        /\ ev' = ev => prog' = prog]_vars

\* C15 witness: a closing status update has arrived for an order the sigmoid trader had
\* inserted; the order is gone from the live set while other orders are still live.
C15_Witness ==
  /\ trader = "sigmoid"
  /\ ev.kind = "status"
  /\ ev.remaining = 0
  /\ ev.id \in DOMAIN venue
  /\ ev.id \notin Live
  /\ Live # {}

\* C16: in both traders an error message for an id in the live bids or asks changes the
\* trader exactly as on_order_status_message(id, 0, 0, 0) does, which takes the id out
\* of the live set; an error message for id 0 or for an id that is not live changes no
\* field of the trader; no error message sends a request.
C16_ErrorIsClosingStatus ==
  [][ev'.kind = "error"
     => /\ out' = <<>>
        /\ IF ev'.id # 0 /\ ev'.id \in Live
           THEN /\ IF trader = "sigmoid"
                   THEN SigmoidStatusBody(ev'.id, 0)
                   ELSE TrendStatusBody(ev'.id, 0)
                /\ Live' = Live \ {ev'.id}
                /\ UNCHANGED <<order_ids, position, sigmoidOnly, trendOnly>>
           ELSE prog' = prog]_vars

\* C16 witness: an error message has arrived for an order the trend trader had inserted;
\* the order is not live and the trader still counts an order as active.
C16_Witness ==
  /\ trader = "trend"
  /\ ev.kind = "error"
  /\ ev.id \in DOMAIN venue
  /\ ev.id \notin Live
  /\ activeorder = 1

\* C17: in both traders a fill notification takes no order out of the live bids and
\* asks, whether the fill is partial or complete: an order leaves the live set only on
\* a status update with remaining volume 0 or on an error message.
C17_FillKeepsOrderLive ==
  [][ev'.kind = "fill" => Live \subseteq Live']_vars

\* the positions of the insert and hedge orders among the requests reqs
Orders(reqs) == {i \in 1..Len(reqs) : reqs[i].req \in {"insert", "hedge"}}

\* C18: order ids are strictly increasing and never reused.  order_ids, the next id to
\* be given, is above every id given so far and never goes down; every insert or hedge
\* order of a callback carries an id from order_ids up to the new order_ids, in
\* strictly increasing order; so every id that enters the live set is above all the
\* ids given before, and none that has left it comes back.
C18_OrderIdsStrictlyIncrease ==
  [][/\ order_ids' >= order_ids
     /\ \A id \in Live \cup DOMAIN venue : id < order_ids
     /\ \A i \in Orders(out') : order_ids <= out'[i].id /\ out'[i].id < order_ids'
     /\ \A i, j \in Orders(out') : i < j => out'[i].id < out'[j].id
     /\ \A id \in Live' \ Live : id >= order_ids]_vars

\* C18 witness: the sigmoid trader has inserted a new pair of orders after an earlier
\* order left the live set and after an id went to a hedge order.
C18_Witness ==
  /\ trader = "sigmoid"
  /\ ev.kind = "book"
  /\ Inserts(out) # {}
  /\ DOMAIN venue \ Live # {}
  /\ order_ids - 1 > Cardinality(DOMAIN venue)

\* C19: when the sigmoid trader quotes with no active volume (free budget 200), at
\* position 0 and with the fair mid equal to its own mid, the ask volume and the bid
\* volume manageVolumes returns, which makeTrade records with the new orders, are each
\* 100 within rounding.
C19_EvenSplitWhenFlat ==
  [][(/\ trader = "sigmoid"
      /\ ev'.kind = "book"
      /\ Inserts(out') # {}
      /\ activeVolume = 0
      /\ position = 0
      /\ Cardinality(Live) < ACTIVE_ORDER_COUNT_LIMIT - 1
      /\ ftrmid = wmp')
     => /\ asks'[order_ids + 1].volume \in 99..101
        /\ bids'[order_ids].volume \in 99..101]_vars

\* C20: when the sigmoid trader quotes at a position within -POSITION_LIMIT ..
\* POSITION_LIMIT, the volumes manageVolumes returns, which makeTrade records with the
\* new orders, add up to the free budget and are capped by the position limit: a fill
\* of the whole bid volume leaves the position at most POSITION_LIMIT and a fill of the
\* whole ask volume leaves it at least -POSITION_LIMIT (so at position POSITION_LIMIT
\* the bid volume is 0 and the ask volume is the whole free budget).
C20_VolumesCappedByPositionLimit ==
  [][(/\ trader = "sigmoid"
      /\ ev'.kind = "book"
      /\ Inserts(out') # {}
      /\ Cardinality(Live) < ACTIVE_ORDER_COUNT_LIMIT - 1
      /\ -POSITION_LIMIT <= position
      /\ position <= POSITION_LIMIT)
     => /\ position + bids'[order_ids].volume <= POSITION_LIMIT
        /\ position - asks'[order_ids + 1].volume >= -POSITION_LIMIT
        /\ bids'[order_ids].volume + asks'[order_ids + 1].volume = ACTIVE_VOLUME_LIMIT - activeVolume]_vars

\* the lots of the orders ids that, by the exchange's book, have neither traded nor been closed
RECURSIVE SumLots(_)
SumLots(ids) ==
  IF ids = {} THEN 0
  ELSE LET k == CHOOSE x \in ids : TRUE
       IN  venue[k] + SumLots(ids \ {k})

\* C21: in the sigmoid trader activeVolume() is the sum, over the live orders, of the
\* volume the order was inserted with less the volume of its fills, and every recorded
\* per-order volume is at least 0.
C21_ActiveVolumeIsTrueRemaining ==
  trader = "sigmoid" =>
    /\ activeVolume = SumLots(Live)
    /\ \A id \in DOMAIN bids : bids[id].volume >= 0
    /\ \A id \in DOMAIN asks : asks[id].volume >= 0

\* C22: in the trend trader the price histories stay bounded: after every order-book
\* tick bidprices and askprices hold at most 101 prices, the length at which the
\* callback trims them.
C22_HistoriesBounded ==
  trader = "trend" => Len(bidprices) <= 101 /\ Len(askprices) <= 101

\* the signed volume of the hedge orders among the requests reqs: buys count positive,
\* sells negative
RECURSIVE SignedHedges(_)
SignedHedges(reqs) ==
  IF reqs = <<>> THEN 0
  ELSE (IF Head(reqs).req # "hedge" THEN 0
        ELSE IF Head(reqs).side = "BUY" THEN Head(reqs).volume ELSE -Head(reqs).volume)
       + SignedHedges(Tail(reqs))

\* C23: the hedge orders sent so far add up, buys positive and sells negative, to minus
\* the position.  The process starts with position 0 and no hedge sent, and every
\* callback changes the position by exactly minus the signed volume of the hedge orders
\* it sends.
C23_PositionExactlyHedged ==
  [][position' - position = -SignedHedges(out')]_vars

\* C23 witness: a bid has been filled and hedged with a sell after an ask was filled and
\* hedged with a buy, the position being short.
C23_Witness ==
  /\ ev.kind = "fill"
  /\ out # <<>>
  /\ out[1].req = "hedge"
  /\ out[1].side = "SELL"
  /\ position < 0

====
